---- MODULE Spec2Model ----
(***************************************************************************)
(* A model of the credit-score oracle service of P2P-lend:                 *)
(*   - the scoring engine (scoring.Engine), as pure operators;             *)
(*   - the on-chain / off-chain aggregators and their fallback chain;      *)
(*   - the score repository (credit_scores, score_histories and            *)
(*     oracle_updates tables with their unique indexes);                   *)
(*   - OracleService.CalculateAndUpdateScore,                              *)
(*     EnhancedOracleService.CalculateWithProviders and                    *)
(*     OracleService.PublishScoreToBlockchain, each as a sequence of       *)
(*     steps (one per database round trip) run by concurrent requests;     *)
(*   - OracleService.ProcessScheduledUpdates, the sweep over the due       *)
(*     scores, whose loop body makes the two calls above;                  *)
(*   - the caller's context and sources that fail or never answer.         *)
(*                                                                         *)
(* Time is counted in days.  Floating point quantities of the engine are   *)
(* computed exactly as rationals over integer inputs.  The metrics tables  *)
(* (on_chain_metrics, off_chain_metrics) are written but never read by     *)
(* these handlers: only the outcome of their upserts is kept.              *)
(***************************************************************************)
EXTENDS Integers, Sequences, FiniteSets, TLC

\* ------------------------------------------------------------------ bounds

\* Concurrent request goroutines.
NumProcs == 2
MaxTxs == 3
MaxBlocks == 2
\* Service calls started in one behaviour.
MaxCalls == 3
\* The clock advances one update interval at a time, MaxTicks times at most.
MaxTicks == 1
\* The largest batch size a sweep is called with.
MaxBatch == 2

Procs == 1..NumProcs
Addrs == {"0xA", "0xB"}

\* --------------------------------------------------------- program constants

MinScore == 300
MaxScore == 850
\* NextUpdateDue = LastUpdated + 30 days
UpdateIntervalDays == 30
\* uint16 arithmetic of the engine
Uint16 == 65536

\* A nil pointer / an absent row.
Nil == [absent |-> TRUE]

\* Go's zero time.Time (year 1): far before every clock value of the model.
ZeroTime == 0 - 700000

Min(a, b) == IF a < b THEN a ELSE b

\* ------------------------------------------------------------ scoring engine

\* scoreBorrowingHistory as a fraction <<numerator, denominator>> in [0, 1]:
\* borrowed = 0 -> 1/2; else clamp(repaid/borrowed - 0.2 * liquidations, 0, 1).
scoreBorrowingHistory(borrowed, repaid, liquidations) ==
    IF borrowed = 0 THEN <<1, 2>>
    ELSE LET d == 5 * borrowed
             n == 5 * repaid - liquidations * borrowed
         IN  <<IF n < 0 THEN 0 ELSE IF n > d THEN d ELSE n, d>>

\* score * 550 of calculateOnChainScore without the borrowing term, over 730000:
\*   0.25 * min(age/730, 1) + 0.20 * (0.6 * min(tx/100, 1) + 0.4 * min(avg/1000, 1))
\*   + 0.15 * min(defi/50, 1) + 0.10 * min(collateral/10000, 1)
OnChainBase(m) ==
      275 * Min(m.walletAge, 730) * 500
    + 66 * Min(m.totalTransactions, 100) * 7300
    + 44 * Min(m.avgTransactionValue, 1000) * 730
    + 165 * Min(m.deFiInteractions, 50) * 7300
    + 55 * Min(m.collateralValue, 10000) * 73

\* MinScore + uint16(score * 550)
calculateOnChainScore(m) ==
    IF m = Nil THEN MinScore
    ELSE LET b  == scoreBorrowingHistory(m.borrowingHistory, m.repaymentHistory,
                                         m.liquidationEvents)
             x  == OnChainBase(m)
             q1 == x \div 730000
             r1 == x % 730000
             q2 == (165 * b[1]) \div b[2]
             r2 == (165 * b[1]) % b[2]
             q3 == (r1 * b[2] + r2 * 730000) \div (730000 * b[2])
         IN  (MinScore + ((q1 + q2 + q3) % Uint16)) % Uint16

\* scoreIncome, in tenths.
scoreIncome(verified, level) ==
    IF ~verified THEN 3
    ELSE IF level = "high" THEN 10
    ELSE IF level = "medium" THEN 7
    ELSE IF level = "low" THEN 5
    ELSE 3

\* scoreDTI, in tenths; the ratio is given in hundredths.
scoreDTI(ratio) ==
    IF ratio <= 36 THEN 10
    ELSE IF ratio <= 43 THEN 7
    ELSE IF ratio <= 50 THEN 4
    ELSE 2

\* MinScore + uint16(score * 550), the score being
\*   0.50 * (traditional - 300)/550 (when traditional > 0; uint16 subtraction)
\*   + 0.20 * bank/100 + 0.15 * income + 0.15 * dti
calculateOffChainScore(m) ==
    IF m = Nil THEN MinScore
    ELSE LET t == IF m.traditionalCreditScore > 0
                  THEN (m.traditionalCreditScore - MinScore + Uint16) % Uint16
                  ELSE 0
             x == 10 * t + 22 * m.bankAccountHistory
                  + 165 * scoreIncome(m.incomeVerified, m.incomeLevel)
                  + 165 * scoreDTI(m.debtToIncomeRatio)
         IN  (MinScore + ((x \div 20) % Uint16)) % Uint16

\* calculateHybridScore: bonuses in twentieths, capped at 1, scaled to 300..850.
calculateHybridScore(on, off, t) ==
    LET s == IF on # Nil /\ off # Nil
             THEN (IF on.repaymentHistory > 5 /\ off.incomeVerified THEN 6 ELSE 0)
                + (IF t - on.lastActivity < 30 THEN 4 ELSE 0)
                + (IF on.collateralValue > 1000 /\ off.incomeVerified THEN 5 ELSE 0)
                + (IF off.employmentStatus \in {"full-time", "self-employed"}
                   THEN 5 ELSE 0)
             ELSE 0
    IN  MinScore + (Min(s, 20) * 55) \div 2

\* calculateConfidence
calculateConfidence(on, off, t) ==
    LET c == (IF on # Nil
              THEN (IF t - on.lastActivity < 7 THEN 20
                    ELSE IF t - on.lastActivity < 30 THEN 10 ELSE 0)
                 + (IF on.totalTransactions > 10 THEN 15 ELSE 0)
                 + (IF on.borrowingHistory > 0 THEN 15 ELSE 0)
              ELSE 0)
           + (IF off # Nil
              THEN (IF off.traditionalCreditScore > 0 THEN 25 ELSE 0)
                 + (IF off.incomeVerified THEN 15 ELSE 0)
                 + (IF t - off.lastVerified < 30 THEN 10 ELSE 0)
              ELSE 0)
    IN  Min(c, 100)

\* generateDataHash: a digest of (onChain, offChain, score, time.Now()), modelled
\* as the digested tuple itself (SHA-256 taken to be collision free).
generateDataHash(on, off, score, t) ==
    [onChain |-> on, offChain |-> off, score |-> score, timestamp |-> t]

FinalScore_Unclamped(on, off, hy) == ((2 * on + 2 * off + hy) \div 5) % Uint16

\* The weighted sum 0.4 * on + 0.4 * off + 0.2 * hybrid, truncated to uint16
\* and clamped to [MinScore, MaxScore].
FinalScore(on, off, hy) ==
    LET f == ((2 * on + 2 * off + hy) \div 5) % Uint16
    IN  IF f < MinScore THEN MinScore ELSE IF f > MaxScore THEN MaxScore ELSE f

\* Engine.CalculateScore at time t: the CreditScore it returns (ID, UserAddress,
\* UpdateCount and CreatedAt still zero).
CalculateScore(on, off, t) ==
    LET onS == calculateOnChainScore(on)
        ofS == calculateOffChainScore(off)
        hyS == calculateHybridScore(on, off, t)
        fin == FinalScore(onS, ofS, hyS)
    IN  [id |-> 0, userAddress |-> "", score |-> fin,
         confidence |-> calculateConfidence(on, off, t),
         onChainScore |-> onS, offChainScore |-> ofS, hybridScore |-> hyS,
         dataHash |-> generateDataHash(on, off, fin, t),
         lastUpdated |-> t, nextUpdateDue |-> t + UpdateIntervalDays,
         updateCount |-> 0, isActive |-> TRUE, createdAt |-> ZeroTime]

\* -------------------------------------------------------------- aggregators

\* A provider that does not answer (connection refused, timeout, bad status).
Failed == [failed |-> TRUE]

\* What the Ethereum node answers for an address: Failed (every RPC call of the
\* fetch fails) or the account's nonce and balance (in ETH).
RpcStates == {Failed, [nonce |-> 100, balance |-> 5000]}

ZeroOnChainMetrics(t) ==
    [walletAge |-> 0, totalTransactions |-> 0, avgTransactionValue |-> 0,
     deFiInteractions |-> 0, borrowingHistory |-> 0, repaymentHistory |-> 0,
     liquidationEvents |-> 0, collateralValue |-> 0, lastActivity |-> t]

\* OnChainAggregator.FetchMetrics (direct RPC): every RPC failure is logged and the
\* field left zero; the returned error is always nil.
OnChainAggregator_FetchMetrics(rpc, t) ==
    IF rpc = Failed
    THEN [metrics |-> ZeroOnChainMetrics(t), err |-> "nil"]
    ELSE LET borrowed == rpc.nonce \div 10
         IN [metrics |-> [walletAge |-> IF rpc.nonce > 0
                                         THEN Min(rpc.nonce \div 7200, 1825) ELSE 0,
                          totalTransactions |-> rpc.nonce,
                          avgTransactionValue |-> IF rpc.nonce > 0
                                                   THEN (rpc.balance * 2) \div rpc.nonce
                                                   ELSE 0,
                          deFiInteractions |-> rpc.nonce \div 5,
                          borrowingHistory |-> borrowed,
                          repaymentHistory |-> borrowed - (borrowed \div 10),
                          liquidationEvents |-> borrowed \div 20,
                          collateralValue |-> rpc.balance,
                          lastActivity |-> t],
             err |-> "nil"]

\* What the credit bureau and the bank API answer: Failed or a response.
CreditAnswers == {Failed, [creditScore |-> 720, debtToIncome |-> 30,
                           employmentStatus |-> "full-time", incomeLevel |-> "medium"]}
BankAnswers == {Failed, [accountHistory |-> 85, incomeVerified |-> TRUE]}

\* OffChainAggregator.FetchMetrics: a failed sub-fetch is logged and its fields
\* left zero; the metrics are returned with a nil error in every case.
OffChainAggregator_FetchMetrics(credit, bank, t) ==
    [metrics |->
        [traditionalCreditScore |-> IF credit = Failed THEN 0 ELSE credit.creditScore,
         debtToIncomeRatio |-> IF credit = Failed THEN 0 ELSE credit.debtToIncome,
         employmentStatus |-> IF credit = Failed THEN "" ELSE credit.employmentStatus,
         incomeLevel |-> IF credit = Failed THEN "" ELSE credit.incomeLevel,
         bankAccountHistory |-> IF bank = Failed THEN 0 ELSE bank.accountHistory,
         incomeVerified |-> IF bank = Failed THEN FALSE ELSE bank.incomeVerified,
         lastVerified |-> t],
     err |-> "nil"]

\* providers.BlockchainSummary, as far as the aggregator reads it.
Summary(age, txs, avg, defi, positions, liquidations, value, last) ==
    [walletAge |-> age, totalTransactions |-> txs, averageTransactionSize |-> avg,
     deFiActivities |-> defi, lendingPositions |-> positions,
     liquidationEvents |-> liquidations, totalPortfolioValue |-> value,
     lastTransaction |-> last]

\* Multi-chain analytics (providers.GetMultiChainAnalytics): Failed, or the totals
\* over the target chains.
MultiChainAnswers ==
    {Failed,
     [totalTransactions |-> 0, walletAge |-> 0, lastDaysAgo |-> 0, positions |-> <<>>],
     [totalTransactions |-> 40, walletAge |-> 400, lastDaysAgo |-> 3,
      positions |-> <<[borrowedAmount |-> 100, healthFactor |-> 20]>>]}

\* providers.ConvertMultiChainToBlockchainSummary
ConvertMultiChainToBlockchainSummary(a, t) ==
    Summary(a.walletAge, a.totalTransactions, 0, 0, a.positions, 0, 0, t - a.lastDaysAgo)

\* What the Blockscout API answers: Failed (each of its four requests fails) or
\* the address's transaction list, summarised.
BlockscoutAnswers ==
    {Failed, [transactions |-> 12, firstDaysAgo |-> 200, lastDaysAgo |-> 10, avgValue |-> 3]}

\* BlockscoutProvider.GetAnalytics: failed requests are logged and their fields left
\* zero; the returned error is always nil.
GetAnalytics(ans, t) ==
    IF ans = Failed \/ ans.transactions = 0
    THEN [analytics |-> [walletAgeDays |-> 0, totalTransactions |-> 0,
                         averageTransactionSize |-> 0, lastTransactionDate |-> ZeroTime,
                         balanceUSD |-> 0],
          err |-> "nil"]
    ELSE [analytics |-> [walletAgeDays |-> ans.firstDaysAgo,
                         totalTransactions |-> ans.transactions,
                         averageTransactionSize |-> ans.avgValue,
                         lastTransactionDate |-> t - ans.lastDaysAgo,
                         balanceUSD |-> 0],
          err |-> "nil"]

\* BlockscoutProvider.ConvertToBlockchainSummary
ConvertToBlockchainSummary(an) ==
    Summary(an.walletAgeDays, an.totalTransactions, an.averageTransactionSize,
            0, <<>>, 0, an.balanceUSD, an.lastTransactionDate)

\* BlockchainDataProvider.GetBlockchainSummary (Covalent): Failed, or a summary
\* holding the portfolio value alone.
ProviderAnswers == {Failed, [quote |-> 2500]}

GetBlockchainSummary(ans) ==
    IF ans = Failed THEN [summary |-> Nil, err |-> "failed to fetch from Covalent"]
    ELSE [summary |-> Summary(0, 0, 0, 0, <<>>, 0, ans.quote, ZeroTime), err |-> "nil"]

\* The aggregator's construction parameters.
Configs == [enableMultiChain : BOOLEAN, preferBlockscout : BOOLEAN, useMockData : BOOLEAN]

\* The answers the providers would give to one FetchMetrics call.
ProviderWorlds ==
    [multi : MultiChainAnswers, blockscout : BlockscoutAnswers,
     provider : ProviderAnswers, rpc : RpcStates]

RECURSIVE CountPositions(_, _)
\* The loop over LendingPositions: repaid = FALSE counts the positions with
\* BorrowedAmount > 0, repaid = TRUE those that also have HealthFactor > 1.5.
CountPositions(positions, repaid) ==
    IF positions = <<>> THEN 0
    ELSE LET pos == Head(positions)
         IN (IF pos.borrowedAmount > 0 /\ (~repaid \/ pos.healthFactor > 15)
             THEN 1 ELSE 0) + CountPositions(Tail(positions), repaid)

\* The conversion of the chosen summary to OnChainMetrics.
MetricsOfSummary(bd) ==
    [walletAge |-> bd.walletAge, totalTransactions |-> bd.totalTransactions,
     avgTransactionValue |-> bd.averageTransactionSize,
     deFiInteractions |-> bd.deFiActivities,
     borrowingHistory |-> CountPositions(bd.lendingPositions, FALSE),
     repaymentHistory |-> CountPositions(bd.lendingPositions, TRUE),
     liquidationEvents |-> bd.liquidationEvents,
     collateralValue |-> bd.totalPortfolioValue,
     lastActivity |-> bd.lastTransaction]

\* The fallback chain keeps blockchainData (Nil until a tier is accepted) and, for
\* the record, the tiers it called with what each answered.
NoData == [data |-> Nil, trace |-> <<>>]

\* Tier 1, multi-chain: called when enabled (the Blockscout provider is always
\* constructed); accepted when it answers without
\* error and observes at least one transaction.
TryMultiChain(acc, cfg, w, t) ==
    IF cfg.enableMultiChain
    THEN [data |-> IF w.multi # Failed /\ w.multi.totalTransactions > 0
                   THEN ConvertMultiChainToBlockchainSummary(w.multi, t)
                   ELSE acc.data,
          trace |-> Append(acc.trace, [tier |-> 1, answer |-> w.multi])]
    ELSE acc

\* The same, overwriting: the mutant that calls Blockscout whatever came before.
TryBlockscout_Always(acc, cfg, w, t) ==
    IF cfg.preferBlockscout
    THEN [data |-> ConvertToBlockchainSummary(GetAnalytics(w.blockscout, t).analytics),
          trace |-> Append(acc.trace, [tier |-> 2, answer |-> w.blockscout])]
    ELSE acc

\* Tier 2, Blockscout on a single chain: called when no data yet and preferred;
\* accepted when GetAnalytics returns no error.
TryBlockscout(acc, cfg, w, t) ==
    IF acc.data = Nil /\ cfg.preferBlockscout
    THEN LET r == GetAnalytics(w.blockscout, t)
         IN [data |-> IF r.err # "nil" THEN acc.data
                      ELSE ConvertToBlockchainSummary(r.analytics),
             trace |-> Append(acc.trace, [tier |-> 2, answer |-> w.blockscout])]
    ELSE acc

\* Tier 3, Covalent/Moralis: called when no data yet.
TryProvider(acc, w) ==
    IF acc.data = Nil
    THEN [data |-> GetBlockchainSummary(w.provider).summary,
          trace |-> Append(acc.trace, [tier |-> 3, answer |-> w.provider])]
    ELSE acc

\* BlockchainDataProvider.MockBlockchainData: a fixed synthetic summary (whole
\* currency units), last active two days ago.
MockBlockchainData(t) ==
    Summary(540, 342, 365, 2, <<[borrowedAmount |-> 0, healthFactor |-> 0]>>, 0,
            12450, t - 2)

EnhancedOnChainAggregator_FetchMetrics_Mocked(cfg, w, t) ==
    LET acc == TryProvider(TryBlockscout(TryMultiChain(NoData, cfg, w, t), cfg, w, t), w)
        tr == IF acc.data = Nil
              THEN Append(acc.trace, [tier |-> 4, answer |-> w.rpc])
              ELSE acc.trace
    IN  IF cfg.useMockData
        THEN [metrics |-> MetricsOfSummary(MockBlockchainData(t)), err |-> "nil",
              trace |-> tr]
        ELSE IF acc.data = Nil
        THEN [metrics |-> OnChainAggregator_FetchMetrics(w.rpc, t).metrics,
              err |-> "nil", trace |-> tr]
        ELSE [metrics |-> MetricsOfSummary(acc.data), err |-> "nil", trace |-> tr]

\* EnhancedOnChainAggregator.FetchMetrics: tiers 1..3, then the direct RPC
\* aggregator (tier 4) when blockchainData is still nil.
EnhancedOnChainAggregator_FetchMetrics(cfg, w, t) ==
    LET acc == TryProvider(TryBlockscout(TryMultiChain(NoData, cfg, w, t), cfg, w, t), w)
    IN  IF acc.data = Nil
        THEN LET r == OnChainAggregator_FetchMetrics(w.rpc, t)
             IN [metrics |-> r.metrics, err |-> r.err,
                 trace |-> Append(acc.trace, [tier |-> 4, answer |-> w.rpc])]
        ELSE [metrics |-> MetricsOfSummary(acc.data), err |-> "nil", trace |-> acc.trace]

\* ------------------------------------------- enhanced off-chain aggregator

UserIDs == {"", "user-1"}

\* CreditBureauProvider.MockCreditBureauData: deterministic in the user id.
MockCreditBureauData(userID) ==
    [creditScore |-> 650 + (Len(userID) % 200), debtToIncome |-> 35,
     employmentStatus |-> "full-time"]

\* PlaidProvider.MockPlaidData: the same summary for every user; money in
\* quarter dollars.
MockPlaidData ==
    [averageBalance |-> 35541, accountAgeMonths |-> 36, transactionCount |-> 245,
     averageMonthlySpend |-> 12800, annualIncome |-> 75000, monthlyIncome |-> 25000,
     incomeVerified |-> TRUE]

categorizeIncome(annualIncome) ==
    IF annualIncome >= 100000 THEN "high"
    ELSE IF annualIncome >= 50000 THEN "medium" ELSE "low"

AddQ(a, b) == IF b[1] = 0 THEN a ELSE <<a[1] * b[2] + b[1] * a[2], a[2] * b[2]>>

\* EnhancedOffChainAggregator.calculateBankScore: four capped terms, summed as
\* fractions <<numerator, denominator>>, truncated to uint8.
calculateBankScore(pl) ==
    LET age == IF pl.accountAgeMonths >= 36 THEN <<30, 1>>
               ELSE <<pl.accountAgeMonths * 30, 36>>
        bal == IF pl.averageBalance >= 20000 THEN <<25, 1>>
               ELSE <<pl.averageBalance, 800>>
        act == IF pl.transactionCount >= 100 THEN <<20, 1>>
               ELSE <<pl.transactionCount, 5>>
        surplus == pl.averageBalance - pl.averageMonthlySpend
        sav == IF pl.monthlyIncome > 0
               THEN IF 5 * surplus >= pl.monthlyIncome THEN <<25, 1>>
                    ELSE IF surplus > 0 THEN <<125 * surplus, pl.monthlyIncome>>
                    ELSE <<0, 1>>
               ELSE <<0, 1>>
        sum == AddQ(AddQ(AddQ(age, bal), act), sav)
    IN  Min(sum[1] \div sum[2], 100)

\* EnhancedOffChainAggregator.FetchMetrics: mock or real credit report (a failed
\* report leaves the fields zero), Plaid always from the mock; never an error.
EnhancedOffChainAggregator_FetchMetrics(useMockData, userID, credit, t) ==
    LET report == IF useMockData THEN MockCreditBureauData(userID) ELSE credit
        has == report # Failed
    IN  [metrics |->
            [traditionalCreditScore |-> IF has THEN report.creditScore % Uint16 ELSE 0,
             debtToIncomeRatio |-> IF has THEN report.debtToIncome ELSE 0,
             employmentStatus |-> IF has THEN report.employmentStatus ELSE "",
             incomeLevel |-> categorizeIncome(MockPlaidData.annualIncome),
             bankAccountHistory |-> calculateBankScore(MockPlaidData),
             incomeVerified |-> MockPlaidData.incomeVerified,
             lastVerified |-> t],
         err |-> "nil"]

\* ------------------------------------------------- contexts and timeouts

\* The caller's context during a call: live, or cancelled (deadline included).
Live == [cancelled |-> FALSE]
Cancelled == [cancelled |-> TRUE]
Contexts == {Live, Cancelled}

\* A source that never answers.
NoResponse == [silent |-> TRUE]

\* A request through an http.Client{Timeout: 30 * time.Second} built with
\* NewRequestWithContext: a cancelled context and a silent server both end the
\* call with an error.
HttpCall(ctx, ans) ==
    IF ctx = Cancelled \/ ans = NoResponse THEN Failed ELSE ans

\* A call on the ethclient of NewOnChainAggregator (ethclient.Dial, no
\* timeout): it ends with the context; under a live context a silent node is
\* waited for without bound.
RpcBlocks(ctx, ans) == ctx = Live /\ ans = NoResponse

RpcCall(ctx, ans) ==
    IF ctx = Cancelled \/ ans = NoResponse THEN Failed ELSE ans

\* A gorm call WithContext(ctx): a cancelled context fails it.
StoreCall(ctx, ans) == IF ctx = Cancelled THEN Failed ELSE ans

\* --------------------------------------------------------------- repository

\* ScoreRepository.GetByAddress: the active row of the address, or nil.
GetByAddress(tbl, a) ==
    IF tbl[a] # Nil /\ tbl[a].isActive THEN tbl[a] ELSE Nil

\* ScoreRepository.Create on credit_scores: user_address carries a unique index.
CreateViolatesUnique(tbl, row) == tbl[row.userAddress] # Nil

\* ScoreRepository.CreateOracleUpdate: tx_hash carries a unique index.
OracleUpdateViolatesUnique(tbl, row) ==
    \E i \in DOMAIN tbl : tbl[i].txHash = row.txHash

\* The rows the WHERE clause of GetDueForUpdate keeps.
DueRows(tbl, t) ==
    {a \in Addrs : tbl[a] # Nil /\ tbl[a].isActive /\ tbl[a].nextUpdateDue <= t}

GetDueForUpdate_Everything(tbl, t, limit) ==
    LET all == {a \in Addrs : tbl[a] # Nil}
        n == Min(limit, Cardinality(all))
    IN  {s \in [1..n -> all] : \A i, j \in 1..n : i # j => s[i] # s[j]}

\* ScoreRepository.GetDueForUpdate: the active rows due at t, by ascending
\* next_update_due, at most limit of them. Rows with equal due dates come in
\* whatever order the database picks, so the result is one of a set.
GetDueForUpdate(tbl, t, limit) ==
    LET due == DueRows(tbl, t)
        n == Min(limit, Cardinality(due))
    IN  {s \in [1..n -> due] :
            /\ \A i, j \in 1..n : i # j => s[i] # s[j]
            /\ \A i, j \in 1..n :
                  i < j => tbl[s[i]].nextUpdateDue <= tbl[s[j]].nextUpdateDue
            /\ \A a \in due \ {s[i] : i \in 1..n} :
                  \A i \in 1..n : tbl[s[i]].nextUpdateDue <= tbl[a].nextUpdateDue}

\* OracleService.GetScore: the default lookup.
GetScore(tbl, a) == GetByAddress(tbl, a)

\* ScoreRepository.GetHistory: the entries of the address, ORDER BY timestamp
\* DESC. The clock of the model is coarser than time.Now(): among entries of
\* one clock value the later insert carries the later timestamp.
RECURSIVE NewestFirst(_)
NewestFirst(h) ==
    IF h = <<>> THEN <<>>
    ELSE LET i == CHOOSE i \in DOMAIN h :
                      \A j \in DOMAIN h :
                          \/ h[j].timestamp < h[i].timestamp
                          \/ h[j].timestamp = h[i].timestamp /\ j <= i
         IN  <<h[i]>> \o NewestFirst([k \in 1..(Len(h) - 1) |->
                                        IF k < i THEN h[k] ELSE h[k + 1]])

GetHistory(tbl, a) == NewestFirst(SelectSeq(tbl, LAMBDA e : e.userAddress = a))

\* What the metrics tables answer to the upserts of one call.
MetricsStoreAnswers == {Failed, [ok |-> TRUE]}

\* ScoreRepository.UpsertOnChainMetrics and UpsertOffChainMetrics: the error.
UpsertMetrics(store) ==
    IF store = Failed THEN "failed to check existing metrics" ELSE "nil"

\* The store failures a computation logs and carries on from: the upserts of
\* the snapshots it holds.
SwallowedUpserts(store, on, off) ==
    (IF on # Nil /\ UpsertMetrics(store) # "nil"
     THEN {"Failed to save on-chain metrics"} ELSE {})
    \cup (IF off # Nil /\ UpsertMetrics(store) # "nil"
          THEN {"Failed to save off-chain metrics"} ELSE {})

\* OracleClient.UpdateCreditScore: an error (nonce, gas price or transactor), or
\* the placeholder's (nil, nil).
SubmitOutcomes == {"failed to get nonce", "nil"}

UpdateCreditScore(outcome) ==
    IF outcome = "nil" THEN [tx |-> Nil, err |-> "nil"] ELSE [tx |-> Nil, err |-> outcome]

\* ------------------------------------------------- the on-chain contracts

\* The signers of the contracts' tests, and the address argument of an update.
Accounts == {"admin", "operator", "user"}

ZeroAddress == "0x0"

Holders == {ZeroAddress, "0xA"}

\* bytes32 identifiers of the general oracle; the first is bytes32(0).
ZeroHash == "0x00"

DataIds == {ZeroHash, "test-data"}

MIN_CREDIT_SCORE == 300
MAX_CREDIT_SCORE == 850
MIN_RISK_LEVEL == 1
MAX_RISK_LEVEL == 5

\* The deploy script's maxDataAge: 7 days in seconds.
SevenDays == 604800

\* The default value of a creditScores slot.
NoCreditData ==
    [creditScore |-> 0, riskLevel |-> 0, additionalData |-> "", lastUpdated |-> 0,
     isValid |-> FALSE]

\* A transaction's effect: the contract's next state, and whether it reverted
\* (then the state is the one before).
Reverted(c) == [state |-> c, status |-> "reverted"]

Executed(c) == [state |-> c, status |-> "ok"]

\* The role members after the constructors: admin holds both roles.
ConstructedRoles(admin) ==
    [ADMIN_ROLE |-> {admin}, ORACLE_OPERATOR_ROLE |-> {admin}]

\* CreditScoreOracle's constructor.
NewCreditScoreOracle(admin, maxAge) ==
    [roles |-> ConstructedRoles(admin), paused |-> FALSE, maxDataAge |-> maxAge,
     creditScores |-> [u \in Holders |-> NoCreditData],
     dataHashes |-> [u \in Holders |-> ZeroHash],
     events |-> <<>>]

\* Oracle's constructor.
NewOracle(admin, maxAge) ==
    [roles |-> ConstructedRoles(admin), paused |-> FALSE, maxDataAge |-> maxAge,
     dataStorage |-> [d \in DataIds |-> ""],
     dataTimestamps |-> [d \in DataIds |-> 0],
     registeredDataTypes |-> {},
     events |-> <<>>]

\* AccessControl.hasRole, the test of the onlyRole modifier.
hasRole_Anyone(c, role, account) == TRUE

hasRole(c, role, account) == account \in c.roles[role]

\* CreditScoreOracle.updateCreditScore at block time ts: the modifiers
\* onlyRole(ORACLE_OPERATOR_ROLE) and whenNotPaused, the three requires, then
\* the writes and the two events.
updateCreditScore(c, sender, ts, userAddress, creditScore, riskLevel, additionalData) ==
    IF ~hasRole(c, "ORACLE_OPERATOR_ROLE", sender) THEN Reverted(c)
    ELSE IF c.paused THEN Reverted(c)
    ELSE IF userAddress = ZeroAddress THEN Reverted(c)
    ELSE IF creditScore < MIN_CREDIT_SCORE \/ creditScore > MAX_CREDIT_SCORE
    THEN Reverted(c)
    ELSE IF riskLevel < MIN_RISK_LEVEL \/ riskLevel > MAX_RISK_LEVEL THEN Reverted(c)
    ELSE LET dataHash == [data |-> additionalData, timestamp |-> ts]
         IN  Executed([c EXCEPT
                 !.creditScores[userAddress] =
                     [creditScore |-> creditScore, riskLevel |-> riskLevel,
                      additionalData |-> additionalData, lastUpdated |-> ts,
                      isValid |-> TRUE],
                 !.dataHashes[userAddress] = dataHash,
                 !.events = Append(@, [event |-> "CreditScoreUpdated",
                                       userAddress |-> userAddress,
                                       creditScore |-> creditScore,
                                       riskLevel |-> riskLevel, timestamp |-> ts])])

\* CreditScoreOracle.isCreditDataStale at block time ts.
isCreditDataStale_Never(c, ts, userAddress) == FALSE

isCreditDataStale(c, ts, userAddress) ==
    LET data == c.creditScores[userAddress]
    IN  IF ~data.isValid THEN TRUE
        ELSE ts - data.lastUpdated > c.maxDataAge

\* CreditScoreOracle.hasValidCreditScore
hasValidCreditScore(c, ts, userAddress) ==
    c.creditScores[userAddress].isValid /\ ~isCreditDataStale(c, ts, userAddress)

\* A view call's revert.
ViewReverted == [reverted |-> TRUE]

\* CreditScoreOracle.getCreditScore
getCreditScore(c, ts, userAddress) ==
    IF ~hasValidCreditScore(c, ts, userAddress) THEN ViewReverted
    ELSE LET data == c.creditScores[userAddress]
         IN  [creditScore |-> data.creditScore, riskLevel |-> data.riskLevel,
              lastUpdated |-> data.lastUpdated]

\* CreditScoreOracle.getCreditData
getCreditData(c, ts, userAddress) ==
    IF ~hasValidCreditScore(c, ts, userAddress) THEN ViewReverted
    ELSE LET data == c.creditScores[userAddress]
         IN  [data |-> data.additionalData, lastUpdated |-> data.lastUpdated]

\* CreditScoreOracle.getRiskLevel
getRiskLevel(c, ts, userAddress) ==
    IF ~hasValidCreditScore(c, ts, userAddress) THEN ViewReverted
    ELSE [riskLevel |-> c.creditScores[userAddress].riskLevel]

\* CreditScoreOracle.getCreditInfo
getCreditInfo(c, ts, userAddress) ==
    IF ~hasValidCreditScore(c, ts, userAddress) THEN ViewReverted
    ELSE LET data == c.creditScores[userAddress]
         IN  [creditScore |-> data.creditScore, riskLevel |-> data.riskLevel,
              lastUpdated |-> data.lastUpdated,
              isStale |-> isCreditDataStale(c, ts, userAddress),
              dataHash |-> c.dataHashes[userAddress]]

\* Oracle.updateData at block time ts.
updateData(c, sender, ts, dataId, data) ==
    IF ~hasRole(c, "ORACLE_OPERATOR_ROLE", sender) THEN Reverted(c)
    ELSE IF c.paused THEN Reverted(c)
    ELSE IF dataId = ZeroHash THEN Reverted(c)
    ELSE IF data = "" THEN Reverted(c)
    ELSE Executed([c EXCEPT
             !.dataStorage[dataId] = data,
             !.dataTimestamps[dataId] = ts,
             !.events = Append(@, [event |-> "DataUpdated", dataId |-> dataId,
                                   data |-> data, timestamp |-> ts])])

\* Oracle.hasData
hasData(c, dataId) == c.dataTimestamps[dataId] > 0

\* Oracle.registerDataType
registerDataType(c, sender, dataType) ==
    IF ~hasRole(c, "ADMIN_ROLE", sender) THEN Reverted(c)
    ELSE IF dataType = "" THEN Reverted(c)
    ELSE IF dataType \in c.registeredDataTypes THEN Reverted(c)
    ELSE Executed([c EXCEPT !.registeredDataTypes = @ \cup {dataType}])

\* setMaxDataAge, the same in both contracts.
setMaxDataAge(c, sender, newMaxAge) ==
    IF ~hasRole(c, "ADMIN_ROLE", sender) THEN Reverted(c)
    ELSE IF ~(newMaxAge > 0) THEN Reverted(c)
    ELSE Executed([c EXCEPT !.maxDataAge = newMaxAge])

\* pause: onlyRole(ADMIN_ROLE), then Pausable._pause (whenNotPaused).
pause(c, sender) ==
    IF ~hasRole(c, "ADMIN_ROLE", sender) THEN Reverted(c)
    ELSE IF c.paused THEN Reverted(c)
    ELSE Executed([c EXCEPT !.paused = TRUE])

\* unpause: onlyRole(ADMIN_ROLE), then Pausable._unpause (whenPaused).
unpause(c, sender) ==
    IF ~hasRole(c, "ADMIN_ROLE", sender) THEN Reverted(c)
    ELSE IF ~c.paused THEN Reverted(c)
    ELSE Executed([c EXCEPT !.paused = FALSE])

\* grantOracleOperatorRole: onlyRole(ADMIN_ROLE), then AccessControl.grantRole,
\* which asks for the role's admin role, ADMIN_ROLE since the constructor, and
\* emits RoleGranted when the account did not hold the role.
grantOracleOperatorRole(c, sender, operator) ==
    IF ~hasRole(c, "ADMIN_ROLE", sender) THEN Reverted(c)
    ELSE IF hasRole(c, "ORACLE_OPERATOR_ROLE", operator) THEN Executed(c)
    ELSE Executed([c EXCEPT
             !.roles.ORACLE_OPERATOR_ROLE = @ \cup {operator},
             !.events = Append(@, [event |-> "RoleGranted", account |-> operator])])

\* revokeOracleOperatorRole: onlyRole(ADMIN_ROLE), then AccessControl.revokeRole,
\* which emits RoleRevoked when the account held the role.
revokeOracleOperatorRole(c, sender, operator) ==
    IF ~hasRole(c, "ADMIN_ROLE", sender) THEN Reverted(c)
    ELSE IF ~hasRole(c, "ORACLE_OPERATOR_ROLE", operator) THEN Executed(c)
    ELSE Executed([c EXCEPT
             !.roles.ORACLE_OPERATOR_ROLE = @ \ {operator},
             !.events = Append(@, [event |-> "RoleRevoked", account |-> operator])])

\* The chain after the deploy script: both contracts constructed with the
\* deployer as admin, no transaction sent to them yet.
Deployed ==
    [timestamp |-> 1, txs |-> 0, blocks |-> 0,
     creditScoreOracle |-> NewCreditScoreOracle("admin", SevenDays),
     oracle |-> NewOracle("admin", SevenDays),
     last |-> [to |-> "", fn |-> "", sender |-> "", status |-> ""]]

\* ------------------------------------------------------------------- state

VARIABLES
    now,            \* the clock, in days
    cfg,            \* the EnhancedOnChainAggregator's construction parameters
    scores,         \* credit_scores: address -> row or Nil
    nextId,         \* the next primary key of credit_scores
    history,        \* score_histories, in insertion order
    oracleUpdates,  \* oracle_updates, in insertion order
    returned,       \* per address, what the score computations returned so far:
                    \* the UpdateCount of the returned score, 0 for an error
    calls,          \* service calls started
    pc,             \* per request goroutine: where it stands
    loc,            \* per request goroutine: its call's arguments and locals
    sweep,          \* per goroutine: the ProcessScheduledUpdates call it runs
    chain           \* the chain: block time, both contracts, the last transaction

vars == <<now, cfg, scores, nextId, history, oracleUpdates, returned, calls, pc, loc,
          sweep, chain>>

NoCall ==
    [op |-> "none", addr |-> "", userID |-> "", fetchBlockchain |-> FALSE, trace |-> <<>>,
     onChainErr |-> "nil", credit |-> Nil, bank |-> Nil,
     score |-> Nil, existing |-> Nil, insertErr |-> "none", swallowed |-> {},
     ctx |-> Live, blockchainData |-> Nil, submitErr |-> "nil",
     err |-> "nil", wraps |-> "nil"]

\* No scheduled sweep runs on the goroutine. A running sweep holds the batch it
\* read (and, for the record, the rows that were due when it read), the
\* position of its loop, and per address visited what the two calls of the
\* loop body returned.
NoSweep ==
    [stage |-> "none", batch |-> <<>>, due |-> {}, idx |-> 1, log |-> <<>>, err |-> "nil"]

\* config.Load: what the environment leaves unset.
DefaultConfig ==
    [enableMultiChain |-> TRUE, preferBlockscout |-> TRUE, useMockData |-> FALSE]

\* An empty store, idle goroutines.
Fresh ==
    /\ now = 0
    /\ scores = [a \in Addrs |-> Nil]
    /\ nextId = 1
    /\ history = <<>>
    /\ oracleUpdates = <<>>
    /\ returned = [a \in Addrs |-> <<>>]
    /\ calls = 0
    /\ pc = [p \in Procs |-> "idle"]
    /\ loc = [p \in Procs |-> NoCall]
    /\ sweep = [p \in Procs |-> NoSweep]
    /\ chain = Deployed

Init == cfg = DefaultConfig /\ Fresh

\* Any configuration the environment can set.
ResolveInit == cfg \in Configs /\ Fresh

AllIdle == \A p \in Procs : pc[p] = "idle"

InSweep(p) == sweep[p].stage # "none"

\* A handler call is admitted while the bound on calls allows; the calls a
\* sweep makes for its batch belong to the sweep.
Admit(p) ==
    IF InSweep(p) THEN calls' = calls
    ELSE calls < MaxCalls /\ calls' = calls + 1

\* A call returns: loc holds what the caller receives.
Return(p, l, e) ==
    /\ pc' = [pc EXCEPT ![p] = "done"]
    /\ loc' = [loc EXCEPT ![p] = [l EXCEPT !.err = e]]

\* What the score computations have returned for address a so far.
Returns(p, l, e) ==
    returned' = [returned EXCEPT ![l.addr] =
                    Append(@, IF e = "nil" THEN l.score.updateCount ELSE 0)]

\* ---------------------------------- OracleService.CalculateAndUpdateScore

\* Lines 51-84: resolve both snapshots, upsert them (failures only logged),
\* compute the score. The on-chain error return is kept although the
\* aggregator never raises it.
CalculateAndUpdateScore(p, a, uid, rpc, credit, bank, store, ctx) ==
    /\ pc[p] = "idle"
    /\ Admit(p)
    /\ LET on  == OnChainAggregator_FetchMetrics(RpcCall(ctx, rpc), now)
           cr  == HttpCall(ctx, credit)
           bk  == HttpCall(ctx, bank)
           off == OffChainAggregator_FetchMetrics(cr, bk, now)
           offM == IF off.err # "nil" THEN Nil ELSE off.metrics
           l == [NoCall EXCEPT !.op = "calculate", !.addr = a, !.userID = uid,
                               !.ctx = ctx,
                               !.trace = <<[tier |-> 4, answer |-> RpcCall(ctx, rpc)]>>,
                               !.onChainErr = on.err]
       IN  IF RpcBlocks(ctx, rpc)
           THEN /\ pc' = [pc EXCEPT ![p] = "waiting"]
                /\ loc' = [loc EXCEPT ![p] =
                              [l EXCEPT !.trace = <<[tier |-> 4, answer |-> NoResponse]>>]]
                /\ UNCHANGED returned
           ELSE IF on.err # "nil"
           THEN /\ Return(p, l, "failed to fetch on-chain metrics")
                /\ Returns(p, l, "failed to fetch on-chain metrics")
           ELSE /\ pc' = [pc EXCEPT ![p] = "lookup"]
                /\ loc' = [loc EXCEPT ![p] =
                              [l EXCEPT !.credit = cr, !.bank = bk,
                                        !.swallowed =
                                            SwallowedUpserts(StoreCall(ctx, store),
                                                             on.metrics, offM),
                                        !.score =
                                  [CalculateScore(on.metrics, offM, now)
                                      EXCEPT !.userAddress = a]]]
                /\ UNCHANGED returned
    /\ UNCHANGED <<sweep, now, cfg, chain, scores, nextId, history, oracleUpdates>>

\* ------------------------ EnhancedOracleService.CalculateWithProviders

\* Lines 340-439: the on-chain snapshot from the fallback chain (its error is
\* fatal) or from the RPC aggregator (its error is only logged); the off-chain
\* snapshot from the enhanced or the basic aggregator; then the score.
CalculateWithProviders(p, a, uid, fetchBlockchain, fetchOffChain, w, credit, bank, store, ctx) ==
    /\ pc[p] = "idle"
    /\ Admit(p)
    /\ LET seen == [multi |-> HttpCall(ctx, w.multi),
                    blockscout |-> HttpCall(ctx, w.blockscout),
                    provider |-> HttpCall(ctx, w.provider),
                    rpc |-> RpcCall(ctx, w.rpc)]
           on  == IF fetchBlockchain
                  THEN EnhancedOnChainAggregator_FetchMetrics(cfg, seen, now)
                  ELSE OnChainAggregator_FetchMetrics(seen.rpc, now)
           tr  == IF fetchBlockchain THEN on.trace
                  ELSE <<[tier |-> 4, answer |-> seen.rpc]>>
           cr  == HttpCall(ctx, credit)
           bk  == HttpCall(ctx, bank)
           off == IF fetchOffChain
                  THEN EnhancedOffChainAggregator_FetchMetrics(cfg.useMockData, uid,
                                                               cr, now)
                  ELSE OffChainAggregator_FetchMetrics(cr, bk, now)
           l == [NoCall EXCEPT !.op = "providers", !.addr = a, !.userID = uid,
                               !.ctx = ctx,
                               !.fetchBlockchain = fetchBlockchain,
                               !.blockchainData = IF fetchBlockchain
                                                  THEN MockBlockchainData(now)
                                                  ELSE Nil,
                               !.trace = tr, !.onChainErr = on.err]
       IN  IF tr[Len(tr)].tier = 4 /\ RpcBlocks(ctx, w.rpc)
           THEN /\ pc' = [pc EXCEPT ![p] = "waiting"]
                /\ loc' = [loc EXCEPT ![p] =
                              [l EXCEPT !.trace[Len(tr)].answer = NoResponse]]
                /\ UNCHANGED returned
           ELSE IF fetchBlockchain /\ on.err # "nil"
           THEN /\ Return(p, l, "failed to fetch blockchain data")
                /\ Returns(p, l, "failed to fetch blockchain data")
           ELSE /\ pc' = [pc EXCEPT ![p] = "lookup"]
                /\ loc' = [loc EXCEPT ![p] =
                              [l EXCEPT !.credit = cr, !.bank = bk,
                                        !.swallowed =
                                            SwallowedUpserts(StoreCall(ctx, store),
                                                             on.metrics, off.metrics),
                                        !.score =
                                  [CalculateScore(on.metrics, off.metrics, now)
                                      EXCEPT !.userAddress = a]]]
                /\ UNCHANGED returned
    /\ UNCHANGED <<sweep, now, cfg, chain, scores, nextId, history, oracleUpdates>>

\* Both services, lines 87-90 and 428-431: look the current row up.
LookupExisting(p, dbOk) ==
    /\ pc[p] = "lookup"
    /\ IF dbOk
       THEN /\ pc' = [pc EXCEPT ![p] = "persist"]
            /\ loc' = [loc EXCEPT ![p].existing = GetByAddress(scores, loc[p].addr)]
            /\ UNCHANGED returned
       ELSE /\ Return(p, loc[p], "failed to check existing score")
            /\ Returns(p, loc[p], "failed to check existing score")
    /\ UNCHANGED <<sweep, now, cfg, chain, scores, nextId, history, oracleUpdates, calls>>

NextUpdateCount_Kept(existing) == existing.updateCount

\* Lines 92-100 (and 433-439): the update count a recomputation stores.
NextUpdateCount(existing) == existing.updateCount + 1

UpdatedRow_FreshIdentity(score, existing) ==
    [score EXCEPT !.updateCount = NextUpdateCount(existing)]

\* Lines 92-96: the row an update writes.
UpdatedRow(score, existing) ==
    [score EXCEPT !.id = existing.id, !.createdAt = existing.createdAt,
                  !.updateCount = NextUpdateCount(existing)]

\* Lines 101-103 and ScoreRepository.Create: the row an insert writes.
CreatedRow(score, id, t) ==
    [score EXCEPT !.id = id, !.createdAt = t, !.updateCount = 1]

\* Lines 92-107: overwrite the row found, or insert a first row.
PersistScore(p, dbOk) ==
    /\ pc[p] = "persist"
    /\ LET l == loc[p]
           a == l.addr
       IN  IF l.existing # Nil
           THEN LET row == UpdatedRow(l.score, l.existing)
                IN  IF dbOk
                    THEN /\ scores' = [scores EXCEPT ![a] = row]
                         /\ pc' = [pc EXCEPT ![p] = "history"]
                         /\ loc' = [loc EXCEPT ![p].score = row]
                         /\ UNCHANGED <<nextId, returned>>
                    ELSE /\ Return(p, l, "failed to update score")
                         /\ Returns(p, l, "failed to update score")
                         /\ UNCHANGED <<scores, nextId>>
           ELSE LET row == CreatedRow(l.score, nextId, now)
                IN  IF dbOk /\ ~CreateViolatesUnique(scores, row)
                    THEN /\ scores' = [scores EXCEPT ![a] = row]
                         /\ nextId' = nextId + 1
                         /\ pc' = [pc EXCEPT ![p] = "history"]
                         /\ loc' = [loc EXCEPT ![p].score = row]
                         /\ UNCHANGED returned
                    ELSE LET lf == [l EXCEPT !.insertErr =
                                       IF dbOk THEN "unique" ELSE "store"]
                         IN  /\ Return(p, lf, "failed to create score")
                             /\ Returns(p, lf, "failed to create score")
                             /\ UNCHANGED <<scores, nextId>>
    /\ UNCHANGED <<sweep, now, cfg, chain, history, oracleUpdates, calls>>

\* Lines 110-119 and 453-462: the history entry of the computation.
HistoryEntry(l, t) ==
    [userAddress |-> l.addr, score |-> l.score.score,
     confidence |-> l.score.confidence, dataHash |-> l.score.dataHash,
     timestamp |-> IF l.op = "providers" THEN l.score.lastUpdated ELSE t]

\* Lines 110-127: append the history entry (a failure is only logged) and
\* return the score.
AppendHistory(p, dbOk) ==
    /\ pc[p] = "history"
    /\ history' = IF dbOk THEN Append(history, HistoryEntry(loc[p], now)) ELSE history
    /\ LET l == IF dbOk THEN loc[p]
                ELSE [loc[p] EXCEPT !.swallowed = @ \cup {"Failed to save score history"}]
       IN  /\ Return(p, l, "nil")
           /\ Returns(p, l, "nil")
    /\ UNCHANGED <<sweep, now, cfg, chain, scores, nextId, oracleUpdates, calls>>

\* ---------------------------------- OracleService.PublishScoreToBlockchain

PublishScoreToBlockchain_Unchecked(p, a, dbOk) ==
    /\ pc[p] = "idle"
    /\ Admit(p)
    /\ LET l == [NoCall EXCEPT !.op = "publish", !.addr = a]
           score == GetByAddress(scores, a)
       IN  IF ~dbOk THEN Return(p, l, "failed to get score")
           ELSE /\ pc' = [pc EXCEPT ![p] = "submit"]
                /\ loc' = [loc EXCEPT ![p] =
                              [l EXCEPT !.score =
                                  IF score = Nil
                                  THEN [CalculateScore(Nil, Nil, now) EXCEPT
                                           !.userAddress = a]
                                  ELSE score]]
    /\ UNCHANGED <<sweep, now, cfg, chain, scores, nextId, history, oracleUpdates, returned>>

\* Lines 133-139: read the current score; a missing one ends the call.
PublishScoreToBlockchain(p, a, dbOk) ==
    /\ pc[p] = "idle"
    /\ Admit(p)
    /\ LET l == [NoCall EXCEPT !.op = "publish", !.addr = a]
           score == GetByAddress(scores, a)
       IN  IF ~dbOk THEN Return(p, l, "failed to get score")
           ELSE IF score = Nil THEN Return(p, l, "no score found for address")
           ELSE /\ pc' = [pc EXCEPT ![p] = "submit"]
                /\ loc' = [loc EXCEPT ![p] = [l EXCEPT !.score = score]]
    /\ UNCHANGED <<sweep, now, cfg, chain, scores, nextId, history, oracleUpdates, returned>>

\* Lines 176-178: fmt.Errorf with %w builds a new error: its message starts
\* with the prefix, and Unwrap gives the submit's error.
WrapSubmitError_Opaque(err) ==
    [msg |-> "failed to publish to blockchain", wraps |-> "nil"]

WrapSubmitError(err) ==
    [msg |-> "failed to publish to blockchain", wraps |-> err]

\* What lines 176-184 return for the submit's result.
PublishResult(sub) ==
    IF sub.err # "nil" THEN WrapSubmitError(sub.err) ELSE [msg |-> "nil", wraps |-> "nil"]

\* Lines 156-170: the audit row of a submit.
OracleUpdateRow(a, score, sub) ==
    [userAddress |-> a, score |-> score.score, confidence |-> score.confidence,
     dataHash |-> score.dataHash,
     status |-> IF sub.err # "nil" THEN "failed" ELSE "pending",
     errorMessage |-> IF sub.err # "nil" THEN sub.err ELSE "",
     txHash |-> IF sub.err = "nil" /\ sub.tx # Nil THEN sub.tx.hash ELSE ""]

SubmitAndRecord_Rollback(p, outcome, dbOk) ==
    /\ pc[p] = "submit"
    /\ LET l == loc[p]
           sub == UpdateCreditScore(outcome)
           update == OracleUpdateRow(l.addr, l.score, sub)
           insertErr == IF ~dbOk THEN "store"
                        ELSE IF OracleUpdateViolatesUnique(oracleUpdates, update)
                             THEN "unique" ELSE "nil"
       IN  /\ oracleUpdates' = IF insertErr = "nil" THEN Append(oracleUpdates, update)
                               ELSE oracleUpdates
           /\ scores' = IF sub.err # "nil" THEN [scores EXCEPT ![l.addr] = Nil]
                        ELSE scores
           /\ Return(p, [l EXCEPT !.insertErr = insertErr,
                                   !.submitErr = sub.err,
                                   !.wraps = PublishResult(sub).wraps],
                     PublishResult(sub).msg)
    /\ UNCHANGED <<sweep, now, cfg, chain, nextId, history, returned, calls>>

\* Lines 147-184: submit, insert the audit row (a failed insert is only
\* logged), return the submit's error wrapped.
SubmitAndRecord(p, outcome, dbOk) ==
    /\ pc[p] = "submit"
    /\ LET l == loc[p]
           sub == UpdateCreditScore(outcome)
           update == OracleUpdateRow(l.addr, l.score, sub)
           insertErr == IF ~dbOk THEN "store"
                        ELSE IF OracleUpdateViolatesUnique(oracleUpdates, update)
                             THEN "unique" ELSE "nil"
       IN  /\ oracleUpdates' = IF insertErr = "nil" THEN Append(oracleUpdates, update)
                               ELSE oracleUpdates
           /\ Return(p, [l EXCEPT !.insertErr = insertErr,
                                   !.submitErr = sub.err,
                                   !.wraps = PublishResult(sub).wraps],
                     PublishResult(sub).msg)
    /\ UNCHANGED <<sweep, now, cfg, chain, scores, nextId, history, returned, calls>>

\* The caller has taken the result; the goroutine serves the next request.
Complete(p) ==
    /\ pc[p] = "done"
    /\ ~InSweep(p)
    /\ pc' = [pc EXCEPT ![p] = "idle"]
    /\ loc' = [loc EXCEPT ![p] = NoCall]
    /\ UNCHANGED <<sweep, now, cfg, chain, scores, nextId, history, oracleUpdates, returned, calls>>

\* ------------------------------- OracleService.ProcessScheduledUpdates

\* The store itself failed the call of goroutine p: the lookup, the update or
\* the insert returned an error that is not a constraint violation.
StoreWasDown(p) ==
    \/ loc[p].err \in {"failed to check existing score", "failed to update score"}
    \/ loc[p].err = "failed to create score" /\ loc[p].insertErr = "store"

\* Why the recomputation of goroutine p returned an error, if it did.
FailureCause(p) ==
    IF loc[p].err = "nil" THEN "none"
    ELSE IF StoreWasDown(p) THEN "store"
    ELSE IF loc[p].insertErr = "unique" THEN "unique"
    ELSE "other"

\* Lines 199-205: read the batch of due scores; a read failure ends the call.
ProcessScheduledUpdates(p, batchSize, dbOk) ==
    /\ pc[p] = "idle"
    /\ ~InSweep(p)
    /\ calls < MaxCalls
    /\ calls' = calls + 1
    /\ IF ~dbOk
       THEN sweep' = [sweep EXCEPT ![p] =
                [NoSweep EXCEPT !.stage = "done",
                                !.err = "failed to get scores due for update"]]
       ELSE \E batch \in GetDueForUpdate(scores, now, batchSize) :
                sweep' = [sweep EXCEPT ![p] =
                    [NoSweep EXCEPT !.stage = IF batch = <<>> THEN "done" ELSE "calc",
                                    !.batch = batch,
                                    !.due = DueRows(scores, now)]]
    /\ UNCHANGED <<now, cfg, chain, scores, nextId, history, oracleUpdates, returned, pc, loc>>

\* Line 210: the loop body recomputes the score of the address, user id "".
SweepCalculate(p, envs) ==
    /\ sweep[p].stage = "calc"
    /\ \E e \in envs :
          CalculateAndUpdateScore(p, sweep[p].batch[sweep[p].idx], "",
                                  e.rpc, e.credit, e.bank, e.store, e.ctx)

\* Line 221: the loop body publishes the score it recomputed.
SweepPublish(p) ==
    /\ sweep[p].stage = "publish"
    /\ \E dbOk \in BOOLEAN :
          PublishScoreToBlockchain(p, sweep[p].batch[sweep[p].idx], dbOk)

\* The loop moves to the next score of the batch; after the last, line 228
\* returns nil.
NextItem(sw, entry) ==
    [sw EXCEPT !.log = Append(@, entry),
               !.idx = @ + 1,
               !.stage = IF sw.idx + 1 > Len(sw.batch) THEN "done" ELSE "calc"]

AfterCalculateError_Abort(sw, entry) ==
    [sw EXCEPT !.log = Append(@, entry), !.stage = "done", !.err = entry.calc]

AfterCalculateError_Publish(sw, entry) == [sw EXCEPT !.stage = "publish"]

\* Lines 211-218: a failed recomputation is logged and the loop continues.
AfterCalculateError(sw, entry) == NextItem(sw, entry)

\* Lines 210-219: the recomputation has returned.
SweepAfterCalculate(p) ==
    /\ sweep[p].stage = "calc"
    /\ pc[p] = "done"
    /\ LET sw == sweep[p]
           entry == [addr |-> sw.batch[sw.idx], calc |-> loc[p].err,
                     cause |-> FailureCause(p), publish |-> "skipped"]
       IN  sweep' = [sweep EXCEPT ![p] =
                        IF loc[p].err # "nil" THEN AfterCalculateError(sw, entry)
                        ELSE [sw EXCEPT !.stage = "publish"]]
    /\ pc' = [pc EXCEPT ![p] = "idle"]
    /\ loc' = [loc EXCEPT ![p] = NoCall]
    /\ UNCHANGED <<now, cfg, chain, scores, nextId, history, oracleUpdates, returned, calls>>

\* Lines 221-226: the publication has returned; its failure is only logged.
SweepAfterPublish(p) ==
    /\ sweep[p].stage = "publish"
    /\ pc[p] = "done"
    /\ LET sw == sweep[p]
           entry == [addr |-> sw.batch[sw.idx], calc |-> "nil",
                     cause |-> "none", publish |-> loc[p].err]
       IN  sweep' = [sweep EXCEPT ![p] = NextItem(sw, entry)]
    /\ pc' = [pc EXCEPT ![p] = "idle"]
    /\ loc' = [loc EXCEPT ![p] = NoCall]
    /\ UNCHANGED <<now, cfg, chain, scores, nextId, history, oracleUpdates, returned, calls>>

\* The caller of the sweep has taken its result.
SweepComplete(p) ==
    /\ sweep[p].stage = "done"
    /\ sweep' = [sweep EXCEPT ![p] = NoSweep]
    /\ UNCHANGED <<now, cfg, chain, scores, nextId, history, oracleUpdates, returned, calls,
                   pc, loc>>

\* ------------------------------------------------------------ deactivation

\* A row is taken out of service by a process outside the scoring core.
Deactivate(a) ==
    /\ scores[a] # Nil
    /\ scores[a].isActive
    /\ scores' = [scores EXCEPT ![a].isActive = FALSE]
    /\ UNCHANGED <<sweep, now, cfg, chain, nextId, history, oracleUpdates, returned, calls,
                   pc, loc>>

\* ---------------------------------------------------------------- the clock

Tick ==
    /\ now + UpdateIntervalDays <= MaxTicks * UpdateIntervalDays
    /\ now' = now + UpdateIntervalDays
    /\ UNCHANGED <<sweep, cfg, chain, scores, nextId, history, oracleUpdates, returned, calls, pc, loc>>

\* ----------------------------------------------------------- specifications

\* What the outside world answers during one call.
SourceEnvs(stores) ==
    [multi : MultiChainAnswers,
     blockscout : BlockscoutAnswers,
     provider : ProviderAnswers \cup {NoResponse},
     rpc : RpcStates \cup {NoResponse},
     credit : CreditAnswers,
     bank : BankAnswers,
     store : stores,
     ctx : {Live}]

LiveEnvs == SourceEnvs(MetricsStoreAnswers)

Sources == {"multi", "blockscout", "provider", "rpc", "credit", "bank", "store"}

\* Under a live context: every source answers, with its richest answer; every
\* source fails.
Up == CHOOSE e \in LiveEnvs :
        /\ \A f \in Sources : e[f] \notin {Failed, NoResponse}
        /\ e.multi.totalTransactions > 0
Down == CHOOSE e \in LiveEnvs : \A f \in Sources : e[f] = Failed

\* The answers of the sources over a metrics store that is up, and a cancelled
\* context, which ends every call whatever the source would answer.
Envs ==
    SourceEnvs({Up.store})
        \cup {[Up EXCEPT !.ctx = Cancelled], [Down EXCEPT !.ctx = Cancelled]}

StartCalculate(p, envs) ==
    \E a \in Addrs, uid \in UserIDs, e \in envs :
        CalculateAndUpdateScore(p, a, uid, e.rpc, e.credit, e.bank, e.store, e.ctx)

StartProviders(p, envs) ==
    \E a \in Addrs, uid \in UserIDs, fb \in BOOLEAN, fo \in BOOLEAN, e \in envs :
        CalculateWithProviders(p, a, uid, fb, fo,
            [multi |-> e.multi, blockscout |-> e.blockscout,
             provider |-> e.provider, rpc |-> e.rpc], e.credit, e.bank, e.store,
            e.ctx)

StartPublish(p) ==
    \E a \in Addrs, dbOk \in BOOLEAN : PublishScoreToBlockchain(p, a, dbOk)

\* What a store access can answer under the call's context.
StoreOutcomes(ctx) == IF ctx = Cancelled THEN {FALSE} ELSE BOOLEAN

\* The store accesses of a call in flight; each may fail.
ComputeStep(p) ==
    \E dbOk \in StoreOutcomes(loc[p].ctx) :
        \/ LookupExisting(p, dbOk)
        \/ PersistScore(p, dbOk)
        \/ AppendHistory(p, dbOk)

PublishStep(p) ==
    \E dbOk \in BOOLEAN, outcome \in SubmitOutcomes : SubmitAndRecord(p, outcome, dbOk)

\* Request goroutines run OracleService's handlers concurrently, interleaved at
\* their store accesses; the outside world is all up or all down during a call.
Next ==
    \/ \E p \in Procs : StartCalculate(p, {Up, Down})
    \/ \E p \in Procs : StartPublish(p)
    \/ \E p \in Procs : ComputeStep(p)
    \/ \E p \in Procs : PublishStep(p)
    \/ \E p \in Procs : Complete(p)
    \/ Tick

Spec == Init /\ [][Next]_vars

\* The same handlers called one after the other: a call starts only when no
\* other call is in flight.
SeqNext ==
    \/ AllIdle /\ \E p \in Procs : StartCalculate(p, {Up, Down})
    \/ AllIdle /\ \E p \in Procs : StartPublish(p)
    \/ \E p \in Procs : ComputeStep(p)
    \/ \E p \in Procs : PublishStep(p)
    \/ \E p \in Procs : Complete(p)
    \/ Tick

SeqSpec == Init /\ [][SeqNext]_vars

\* One score computation of either service on a fresh store, under any configuration and any
\* combination of answers of the outside world.
ResolveNext ==
    \/ calls = 0 /\ \E p \in Procs : StartCalculate(p, Envs)
    \/ calls = 0 /\ \E p \in Procs : StartProviders(p, Envs)
    \/ \E p \in Procs : ComputeStep(p)
    \/ \E p \in Procs : Complete(p)
    \/ Tick

ResolveSpec == ResolveInit /\ [][ResolveNext]_vars

\* The same, with every call in flight taking its next step eventually.
ResolveFairSpec == ResolveSpec /\ \A p \in Procs : WF_vars(ComputeStep(p))

\* Scheduled sweeps on concurrent goroutines over a store that sequential
\* on-request computations have filled, with rows deactivated from outside.
NoSweeps == \A p \in Procs : ~InSweep(p)

SweepNext ==
    \/ \E p \in Procs : AllIdle /\ NoSweeps /\ StartCalculate(p, {Up})
    \/ \E p \in Procs, n \in 1..MaxBatch, dbOk \in BOOLEAN :
          ProcessScheduledUpdates(p, n, dbOk)
    \/ \E p \in Procs : SweepCalculate(p, {Up})
    \/ \E p \in Procs : SweepAfterCalculate(p)
    \/ \E p \in Procs : SweepPublish(p)
    \/ \E p \in Procs : SweepAfterPublish(p)
    \/ \E p \in Procs : SweepComplete(p)
    \/ \E p \in Procs : ComputeStep(p)
    \/ \E p \in Procs : PublishStep(p)
    \/ \E p \in Procs : Complete(p)
    \/ \E a \in Addrs : Deactivate(a)
    \/ Tick

SweepSpec == Init /\ [][SweepNext]_vars

\* The snapshots the scoring engine is given: table-driven as in
\* TestCalculateScore, each field at its low and its high end, nil included.
OnChainSnapshots(t) ==
    [walletAge : {0, 2000}, totalTransactions : {0, 500},
     avgTransactionValue : {0, 5000}, deFiInteractions : {0, 100},
     collateralValue : {0, 50000}, borrowingHistory : {0, 10},
     repaymentHistory : {0, 10}, liquidationEvents : {0, 3},
     lastActivity : {t, t - 90}]

OffChainSnapshots(t) ==
    [traditionalCreditScore : {0, 100, 300, 850, 65535},
     bankAccountHistory : {0, 100}, incomeVerified : BOOLEAN,
     incomeLevel : {"", "high"}, debtToIncomeRatio : {25, 60},
     employmentStatus : {"", "full-time"}, lastVerified : {t, t - 90}]

\* A caller hands two snapshots to Engine.CalculateScore and takes the result.
EngineCalculateScore(p, on, off) ==
    /\ pc[p] = "idle"
    /\ pc' = [pc EXCEPT ![p] = "done"]
    /\ loc' = [loc EXCEPT ![p] =
                  [NoCall EXCEPT !.op = "engine", !.score = CalculateScore(on, off, now),
                                 !.err = "nil"]]
    /\ UNCHANGED <<sweep, now, cfg, chain, scores, nextId, history, oracleUpdates, returned,
                   calls>>

EngineNext ==
    \/ \E p \in Procs :
          /\ AllIdle
          /\ \E on \in OnChainSnapshots(now) \cup {Nil},
                off \in OffChainSnapshots(now) \cup {Nil} :
                 EngineCalculateScore(p, on, off)
    \/ \E p \in Procs : Complete(p)
    \/ Tick

EngineSpec == Init /\ [][EngineNext]_vars

\* The snapshots the engine's monotonicity is probed with: every input the
\* composite is said to grow with at a low, a middle and a saturated value
\* (the hybrid bonuses' thresholds of 5 repayments and 1000 of collateral lie
\* between them), the remaining inputs at one value.
MonotoneValues ==
    [walletAge |-> {0, 365, 1000}, totalTransactions |-> {0, 50, 200},
     avgTransactionValue |-> {500}, deFiInteractions |-> {0, 100},
     collateralValue |-> {500, 1001, 20000}, borrowingHistory |-> {0, 5, 10},
     repaymentHistory |-> {0, 4, 6, 10}, liquidationEvents |-> {0, 1}]

MonotoneOnChain(t) ==
    [walletAge : MonotoneValues.walletAge,
     totalTransactions : MonotoneValues.totalTransactions,
     avgTransactionValue : MonotoneValues.avgTransactionValue,
     deFiInteractions : MonotoneValues.deFiInteractions,
     collateralValue : MonotoneValues.collateralValue,
     borrowingHistory : MonotoneValues.borrowingHistory,
     repaymentHistory : MonotoneValues.repaymentHistory,
     liquidationEvents : MonotoneValues.liquidationEvents,
     lastActivity : {t}]

MonotoneOffChain(t) ==
    [traditionalCreditScore : {700}, bankAccountHistory : {0, 50, 255},
     incomeVerified : BOOLEAN, incomeLevel : {"high"}, debtToIncomeRatio : {25},
     employmentStatus : {"full-time"}, lastVerified : {t}]

\* The on-chain inputs the composite is said to grow with, one field each.
GrowingFields == {"walletAge", "totalTransactions", "deFiInteractions", "collateralValue"}

\* on2 is on with one of the growing fields raised (or left as it is).
FieldRaised(on, on2) ==
    \E f \in GrowingFields : on2 = [on EXCEPT ![f] = on2[f]] /\ on2[f] >= on[f]

\* on2 is on with a repayment ratio repaid/borrowed at least as high, both
\* ratios being defined; no other field differs.
RatioRaised(on, on2) ==
    /\ on2 = [on EXCEPT !.repaymentHistory = on2.repaymentHistory,
                        !.borrowingHistory = on2.borrowingHistory]
    /\ on.borrowingHistory > 0
    /\ on2.borrowingHistory > 0
    /\ on2.repaymentHistory * on.borrowingHistory
           >= on.repaymentHistory * on2.borrowingHistory

\* off2 is off with the bank history score raised (or left as it is).
BankHistoryRaised(off, off2) ==
    /\ off2 = [off EXCEPT !.bankAccountHistory = off2.bankAccountHistory]
    /\ off2.bankAccountHistory >= off.bankAccountHistory

\* The second pair of snapshots is the first with one of the six inputs raised.
OneInputRaised(on, off, on2, off2) ==
    \/ off2 = off /\ FieldRaised(on, on2)
    \/ off2 = off /\ RatioRaised(on, on2)
    \/ on2 = on /\ BankHistoryRaised(off, off2)

\* A caller scores two pairs of snapshots, goroutine p the first and q the
\* second, and holds both results.
EngineCalculateBoth(p, q, on, off, on2, off2) ==
    /\ p # q
    /\ AllIdle
    /\ pc' = [pc EXCEPT ![p] = "done", ![q] = "done"]
    /\ loc' = [loc EXCEPT
                  ![p] = [NoCall EXCEPT !.op = "engine",
                                        !.score = CalculateScore(on, off, now)],
                  ![q] = [NoCall EXCEPT !.op = "engine",
                                        !.score = CalculateScore(on2, off2, now)]]
    /\ UNCHANGED <<sweep, now, cfg, chain, scores, nextId, history, oracleUpdates, returned,
                   calls>>

\* The snapshots that are on with one growing field raised, or with the two
\* fields of the repayment ratio changed so that the ratio does not fall.
RaisedOnChain(on) ==
    UNION {{[on EXCEPT ![f] = v] : v \in {x \in MonotoneValues[f] : x >= on[f]}} :
              f \in GrowingFields}
    \cup {on2 \in {[on EXCEPT !.repaymentHistory = r, !.borrowingHistory = b] :
                        r \in MonotoneValues.repaymentHistory,
                        b \in MonotoneValues.borrowingHistory} :
              RatioRaised(on, on2)}

MonotoneNext ==
    \/ /\ AllIdle
       /\ \E on \in MonotoneOnChain(now), off \in MonotoneOffChain(now) :
          \/ \E on2 \in RaisedOnChain(on) :
                EngineCalculateBoth(1, 2, on, off, on2, off)
          \/ \E off2 \in MonotoneOffChain(now) :
                /\ BankHistoryRaised(off, off2)
                /\ EngineCalculateBoth(1, 2, on, off, on, off2)
    \/ \E p \in Procs : Complete(p)

MonotoneSpec == Init /\ [][MonotoneNext]_vars

\* ------------------------------------------- transactions to the contracts

Contracts == {"creditScoreOracle", "oracle"}

\* A transaction to a contract is mined at the current block time: the
\* contract takes the state the call leaves (its old state after a revert),
\* and the chain records who called what and how it ended.
Transact(to, fn, sender, result) ==
    /\ chain.txs < MaxTxs
    /\ chain' = [chain EXCEPT ![to] = result.state,
                              !.txs = @ + 1,
                              !.last = [to |-> to, fn |-> fn, sender |-> sender,
                                        status |-> result.status]]
    /\ UNCHANGED <<now, cfg, scores, nextId, history, oracleUpdates, returned, calls, pc,
                   loc, sweep>>

UpdateCreditScoreTx(sender, userAddress, creditScore, riskLevel) ==
    Transact("creditScoreOracle", "updateCreditScore", sender,
             updateCreditScore(chain.creditScoreOracle, sender, chain.timestamp,
                               userAddress, creditScore, riskLevel, "data"))

\* updateData: the general oracle stores; CreditScoreOracle always reverts.
UpdateDataTx(to, sender, dataId, data) ==
    Transact(to, "updateData", sender,
             IF to = "oracle"
             THEN updateData(chain.oracle, sender, chain.timestamp, dataId, data)
             ELSE Reverted(chain.creditScoreOracle))

RegisterDataTypeTx(sender, dataType) ==
    Transact("oracle", "registerDataType", sender,
             registerDataType(chain.oracle, sender, dataType))

SetMaxDataAgeTx(to, sender, newMaxAge) ==
    Transact(to, "setMaxDataAge", sender, setMaxDataAge(chain[to], sender, newMaxAge))

PauseTx(to, sender) == Transact(to, "pause", sender, pause(chain[to], sender))

UnpauseTx(to, sender) == Transact(to, "unpause", sender, unpause(chain[to], sender))

GrantOracleOperatorRoleTx(to, sender, operator) ==
    Transact(to, "grantOracleOperatorRole", sender,
             grantOracleOperatorRole(chain[to], sender, operator))

RevokeOracleOperatorRoleTx(to, sender, operator) ==
    Transact(to, "revokeOracleOperatorRole", sender,
             revokeOracleOperatorRole(chain[to], sender, operator))

\* Time passes on the chain (evm_increaseTime and evm_mine in the tests).
MineBlock(seconds) ==
    /\ chain.blocks < MaxBlocks
    /\ chain' = [chain EXCEPT !.timestamp = @ + seconds, !.blocks = @ + 1]
    /\ UNCHANGED <<now, cfg, scores, nextId, history, oracleUpdates, returned, calls, pc,
                   loc, sweep>>

ChainNext ==
    \/ \E sender \in Accounts, u \in Holders, score \in {299, 750}, risk \in {0, 2} :
          UpdateCreditScoreTx(sender, u, score, risk)
    \/ \E to \in Contracts, sender \in Accounts, d \in DataIds, data \in {"", "content"} :
          UpdateDataTx(to, sender, d, data)
    \/ \E sender \in Accounts, t \in {"", "price"} : RegisterDataTypeTx(sender, t)
    \/ \E to \in Contracts, sender \in Accounts, age \in {0, 1, SevenDays} :
          SetMaxDataAgeTx(to, sender, age)
    \/ \E to \in Contracts, sender \in Accounts : PauseTx(to, sender)
    \/ \E to \in Contracts, sender \in Accounts : UnpauseTx(to, sender)
    \/ \E to \in Contracts, sender \in Accounts, operator \in Accounts :
          GrantOracleOperatorRoleTx(to, sender, operator)
    \/ \E to \in Contracts, sender \in Accounts, operator \in Accounts :
          RevokeOracleOperatorRoleTx(to, sender, operator)
    \/ \E seconds \in {1, SevenDays} : MineBlock(seconds)

ChainSpec == Init /\ [][ChainNext]_vars

\* ------------------------------------------------------------------ claims

Stored(a) == IF scores[a] = Nil THEN 0 ELSE scores[a].updateCount

\* The update counts the successful score computations on a returned, in order.
Successes(a) == SelectSeq(returned[a], LAMBDA c : c > 0)

HistoryOf(a) == SelectSeq(history, LAMBDA h : h.userAddress = a)

IsComputation(p) == loc[p].op \in {"calculate", "providers"}

\* C1: under concurrent CalculateAndUpdateScore calls on one address no two
\* successful calls return the same updateCount, and once k calls have
\* succeeded and none is in flight the stored updateCount is k.
C1_UpdateCountSerialised ==
    \A a \in Addrs :
        /\ \A i, j \in DOMAIN Successes(a) :
              i # j => Successes(a)[i] # Successes(a)[j]
        /\ (\A p \in Procs : pc[p] \in {"idle", "done"})
              => Stored(a) = Len(Successes(a))

\* C2: called one after the other, the first successful computation on an
\* address stores updateCount 1 and each later one the previous count plus 1;
\* a failed call changes nothing, so the stored count is the number of
\* successful calls (one more while a call that has written its row is about to
\* return) and never decreases.
C2_SequentialUpdateCount ==
    \A a \in Addrs :
        /\ \A i \in DOMAIN Successes(a) : Successes(a)[i] = i
        /\ Stored(a) = Len(Successes(a))
              + Cardinality({p \in Procs : pc[p] = "history" /\ loc[p].addr = a})

C2_Witness ==
    \E a \in Addrs : returned[a] = <<1, 0, 2>> /\ Stored(a) = 2

\* C3: every successful CalculateAndUpdateScore call appends exactly one
\* ScoreHistory entry: an address with n successful calls has n entries.
C3_OneHistoryEntryPerSuccess ==
    \A a \in Addrs : Len(HistoryOf(a)) = Len(Successes(a))

\* C4: no step changes the primary key, the address or createdAt of a
\* CreditScore row that exists; in particular a recomputation keeps them.
C4_IdentityPreserved ==
    [][\A a \in Addrs :
          scores[a] # Nil =>
              /\ scores'[a] # Nil
              /\ scores'[a].id = scores[a].id
              /\ scores'[a].userAddress = scores[a].userAddress
              /\ scores'[a].createdAt = scores[a].createdAt]_vars

C4_Witness ==
    \E a \in Addrs :
        /\ Stored(a) = 2
        /\ scores[a].createdAt = 0
        /\ scores[a].lastUpdated = UpdateIntervalDays

\* C5: every PublishScoreToBlockchain call that found a score has, when it
\* returns, recorded its OracleUpdate row, whatever the submit's outcome and
\* whatever was published before (calls during which the store itself is
\* unavailable set aside).
C5_EveryPublishRecorded ==
    \A p \in Procs :
        (pc[p] = "done" /\ loc[p].op = "publish" /\ loc[p].score # Nil
            /\ loc[p].insertErr # "store")
        => loc[p].insertErr = "nil"

\* C6: a PublishScoreToBlockchain call on an address without a current
\* CreditScore row returns at once, with the not-found error (or the store's
\* read error), and inserts nothing; every OracleUpdate row is of an address
\* that has a CreditScore row.
C6_PublishWithoutScore ==
    /\ [](\A i \in DOMAIN oracleUpdates : scores[oracleUpdates[i].userAddress] # Nil)
    /\ [][\A p \in Procs :
            (pc[p] = "idle" /\ pc'[p] # "idle" /\ loc'[p].op = "publish"
                /\ GetByAddress(scores, loc'[p].addr) = Nil)
            => /\ pc'[p] = "done"
               /\ loc'[p].err \in {"no score found for address", "failed to get score"}
               /\ oracleUpdates' = oracleUpdates]_vars

C6_Witness ==
    \E p \in Procs :
        /\ pc[p] = "done" /\ loc[p].op = "publish"
        /\ loc[p].err = "no score found for address"
        /\ \E a \in Addrs : scores[a] # Nil

\* Every source the call asked for on-chain data failed to answer.
OnChainResolutionFailed(p) ==
    /\ loc[p].trace # <<>>
    /\ \A i \in DOMAIN loc[p].trace : loc[p].trace[i].answer = Failed

\* C7: a score computation whose on-chain resolution failed returns an error,
\* and has created or updated no CreditScore row and no history entry.
C7_OnChainFailureIsFatal ==
    \A p \in Procs :
        (pc[p] = "done" /\ IsComputation(p) /\ OnChainResolutionFailed(p))
        => /\ loc[p].err # "nil"
           /\ scores[loc[p].addr] = Nil
           /\ history = <<>>

\* C8: when the fallback chain ran to its last tier and every tier failed, the
\* orchestrator returned an error.
C8_ExhaustedChainIsError ==
    \A p \in Procs :
        (loc[p].op = "providers" /\ loc[p].fetchBlockchain
            /\ OnChainResolutionFailed(p)
            /\ loc[p].trace[Len(loc[p].trace)].tier = 4)
        => loc[p].onChainErr # "nil"

\* Whether the chain stops at this tier's answer: multi-chain needs an answer
\* with at least one transaction, the provider an answer; Blockscout's and the
\* RPC aggregator's results are taken as they come.
Usable(e) ==
    CASE e.tier = 1 -> e.answer # Failed /\ e.answer.totalTransactions > 0
      [] e.tier = 3 -> e.answer # Failed
      [] OTHER -> TRUE

\* The snapshot made of one tier's answer alone.
SnapshotOf(e, t) ==
    CASE e.tier = 1 -> MetricsOfSummary(ConvertMultiChainToBlockchainSummary(e.answer, t))
      [] e.tier = 2 -> MetricsOfSummary(ConvertToBlockchainSummary(
                           GetAnalytics(e.answer, t).analytics))
      [] e.tier = 3 -> MetricsOfSummary(GetBlockchainSummary(e.answer).summary)
      [] OTHER -> OnChainAggregator_FetchMetrics(e.answer, t).metrics

C10_OffChainFailureScoresMinimum ==
    \A p \in Procs :
        (pc[p] = "done" /\ loc[p].op = "calculate" /\ loc[p].err = "nil"
            /\ ~OnChainResolutionFailed(p)
            /\ loc[p].credit = Failed /\ loc[p].bank = Failed)
        => loc[p].score.offChainScore = MinScore

\* The addresses a sweep in flight read as its batch.
BatchOf(p) == {sweep[p].batch[i] : i \in DOMAIN sweep[p].batch}

SweepInFlight(p) == sweep[p].stage \in {"calc", "publish"}

\* C11: a scheduled sweep never starts while another sweep over the same
\* due-window is in flight: no two sweeps in flight hold the same address in
\* their batches, so none is recomputed twice within one cycle.
C11_SweepsDoNotOverlap ==
    \A p, q \in Procs :
        p # q /\ SweepInFlight(p) /\ SweepInFlight(q) =>
            BatchOf(p) \cap BatchOf(q) = {}

\* C12: in ProcessScheduledUpdates a failed recomputation or a failed
\* publication of one address never aborts the batch: the loop visits the
\* addresses of the batch in order, and a sweep that has read its batch
\* returns nil with every address of the batch visited.
C12_BatchNeverAborted ==
    \A p \in Procs :
        LET sw == sweep[p]
        IN  /\ SweepInFlight(p) => sw.idx <= Len(sw.batch) /\ Len(sw.log) = sw.idx - 1
            /\ \A i \in DOMAIN sw.log : sw.log[i].addr = sw.batch[i]
            /\ sw.stage = "done" /\ sw.batch # <<>> =>
                  sw.err = "nil" /\ Len(sw.log) = Len(sw.batch)

\* A sweep over two addresses has returned: the recomputation of the first
\* failed, the second was recomputed and its publication failed.
C12_Witness ==
    \E p \in Procs :
        /\ sweep[p].stage = "done"
        /\ Len(sweep[p].log) = 2
        /\ sweep[p].log[1].calc # "nil"
        /\ sweep[p].log[2].calc = "nil"
        /\ sweep[p].log[2].publish # "nil"

\* C13: any store read or write failure during a score computation (metrics
\* upsert, lookup of the existing row, create or update of the row, history
\* append) is fatal: the call returns an error, never a CreditScore.
C13_StoreFailureIsFatal ==
    \A p \in Procs :
        IsComputation(p) /\ pc[p] = "done" /\ loc[p].swallowed # {} =>
            loc[p].err # "nil"

\* A step of a PublishScoreToBlockchain call of goroutine p.
IsPublishStep(p) ==
    /\ pc[p] \in {"idle", "submit"}
    /\ pc'[p] # pc[p]
    /\ loc'[p].op = "publish"

\* C14: a failed PublishScoreToBlockchain never rolls back or alters the
\* persisted CreditScore row or any ScoreHistory entry: no step of a publish
\* call changes credit_scores or score_histories, and the step on which the
\* call returns its error changes nothing else in the store than, at most,
\* appending one OracleUpdate row of status "failed" for the address.
C14_FailedPublishLeavesScore ==
    [][\A p \in Procs :
          IsPublishStep(p) =>
              /\ scores' = scores
              /\ history' = history
              /\ nextId' = nextId
              /\ pc'[p] = "done" /\ loc'[p].err # "nil" =>
                    \/ oracleUpdates' = oracleUpdates
                    \/ /\ Len(oracleUpdates') = Len(oracleUpdates) + 1
                       /\ SubSeq(oracleUpdates', 1, Len(oracleUpdates)) = oracleUpdates
                       /\ oracleUpdates'[Len(oracleUpdates')].status = "failed"
                       /\ oracleUpdates'[Len(oracleUpdates')].userAddress = loc'[p].addr]_vars

\* A publish call has returned the submit's failure; the row it read is still
\* the stored one, the history entry of its computation is still there, and
\* the failure is on record in oracle_updates.
C14_Witness ==
    \E p \in Procs :
        /\ pc[p] = "done"
        /\ loc[p].op = "publish"
        /\ loc[p].err = "failed to publish to blockchain"
        /\ loc[p].insertErr = "nil"
        /\ scores[loc[p].addr] = loc[p].score
        /\ HistoryOf(loc[p].addr) # <<>>
        /\ oracleUpdates[Len(oracleUpdates)].status = "failed"

\* C15: when the caller's context is cancelled during metric resolution the
\* fallback progression stops at once: no tier after the one in progress is
\* attempted (and the caller is told of the cancellation).
C15_CancellationStopsFallback ==
    \A p \in Procs :
        IsComputation(p) /\ loc[p].ctx = Cancelled =>
            Len(loc[p].trace) <= 1

\* C16: every provider call of a fallback chain is bounded by a per-call
\* timeout, so metric resolution terminates: a call that waits for a source
\* stops waiting.
C16_ResolutionTerminates ==
    \A p \in Procs : (pc[p] = "waiting") ~> (pc[p] # "waiting")

\* The provider answers under which the fallback chain makes the calls that
\* goroutine p's computation made.
WorldsOf(p) ==
    {w \in ProviderWorlds :
        EnhancedOnChainAggregator_FetchMetrics(cfg, w, loc[p].score.dataHash.timestamp).trace
            = loc[p].trace}

Selectable ==
    {a \in Addrs : \E n \in 1..MaxBatch :
                      \E s \in GetDueForUpdate(scores, now, n) :
                          \E i \in DOMAIN s : s[i] = a}

\* C18: GetDueForUpdate returns only active rows whose nextUpdateDue is at or
\* before now; a row computed less than 30 days ago is not returned, and the
\* batch a sweep reads holds only rows that were active and due when it read.
C18_OnlyDueRowsSelected ==
    /\ [](\A a \in Selectable :
              /\ scores[a] # Nil
              /\ scores[a].isActive
              /\ scores[a].nextUpdateDue <= now)
    /\ [](\A a \in Addrs :
              scores[a] # Nil /\ now < scores[a].lastUpdated + UpdateIntervalDays
                  => a \notin Selectable)
    /\ [][\A p \in Procs :
              ~InSweep(p) /\ InSweep(p)' =>
                  \A i \in DOMAIN sweep'[p].batch :
                      LET row == scores[sweep'[p].batch[i]]
                      IN  /\ row # Nil
                          /\ row.isActive
                          /\ row.nextUpdateDue <= now
                          /\ row.lastUpdated + UpdateIntervalDays <= now]_vars

\* A sweep has read its batch on the day another address was first scored:
\* the batch holds a due address and not the one just scored.
C18_Witness ==
    \E p \in Procs, a, b \in Addrs :
        /\ SweepInFlight(p) /\ sweep[p].idx = 1 /\ pc[p] = "idle"
        /\ a \in BatchOf(p) /\ b \notin BatchOf(p)
        /\ scores[b] # Nil /\ scores[b].isActive /\ scores[b].lastUpdated = now
        /\ scores[a].nextUpdateDue <= now

\* C19: once a CreditScore is deactivated it stays excluded from default
\* lookups and from scheduling: no step of the service makes GetScore find it
\* or GetDueForUpdate return it again.
C19_DeactivatedStaysExcluded ==
    [][\A a \in Addrs :
          scores[a] # Nil /\ ~scores[a].isActive =>
              /\ GetScore(scores', a) = Nil
              /\ a \notin Selectable']_vars

\* C20: for every pair of on-chain and off-chain snapshots, either or both
\* nil included, CalculateScore returns without error a composite score in
\* [300, 850] and a confidence in [0, 100].
C20_ScoreAndConfidenceInRange ==
    \A p \in Procs :
        loc[p].op = "engine" =>
            /\ loc[p].err = "nil"
            /\ loc[p].score # Nil
            /\ loc[p].score.score \in MinScore..MaxScore
            /\ loc[p].score.confidence \in 0..100

\* The engine has scored a nil on-chain snapshot with an off-chain snapshot
\* whose component lies far above the range: the composite is the maximum.
C20_Witness ==
    \E p \in Procs :
        /\ loc[p].op = "engine"
        /\ loc[p].score.dataHash.onChain = Nil
        /\ loc[p].score.dataHash.offChain # Nil
        /\ loc[p].score.offChainScore > MaxScore
        /\ loc[p].score.score = MaxScore

\* C21: for every input snapshot (any traditionalCreditScore of 0..65535, any
\* counts and values) each of the on-chain, off-chain and hybrid components
\* of the computed CreditScore lies in [300, 850].
C21_ComponentsInRange ==
    \A p \in Procs :
        loc[p].op = "engine" =>
            /\ loc[p].score.onChainScore \in MinScore..MaxScore
            /\ loc[p].score.offChainScore \in MinScore..MaxScore
            /\ loc[p].score.hybridScore \in MinScore..MaxScore

\* C22: concurrent CalculateAndUpdateScore calls for one address, also when
\* the address has no score yet, all succeed: over a store that answers, no
\* call returns an error.
C22_ConcurrentCallsAllSucceed ==
    \A p \in Procs :
        loc[p].op = "calculate" /\ pc[p] = "done" /\ loc[p].err # "nil" =>
            StoreWasDown(p)

\* A sweep of goroutine p has returned nil and its batch size was at least the
\* number of rows due when it read them.
SweepCoveredAllDue(p) ==
    /\ sweep[p].stage = "done"
    /\ sweep[p].err = "nil"
    /\ sweep[p].due # {}
    /\ sweep[p].due \subseteq BatchOf(p)

\* The sweep of goroutine p recomputed address a.
RecomputedBy(p, a) ==
    \E i \in DOMAIN sweep[p].log :
        sweep[p].log[i].addr = a /\ sweep[p].log[i].calc = "nil"

\* C23 as stated: after ProcessScheduledUpdates returns, with a batch size of
\* at least the number of due active rows and no provider failure, every row
\* that was due and active before the sweep has been recomputed by it and has
\* an updateCount of at least 2.
C23_SweepRecomputesEveryDue ==
    \A p \in Procs :
        SweepCoveredAllDue(p) =>
            \A a \in sweep[p].due : RecomputedBy(p, a) /\ scores[a].updateCount >= 2

\* What the sweep does guarantee under those conditions: it has visited every
\* row that was due; the recomputation of a row fails only when a store access
\* fails or the insert hits the unique index; every row whose recomputation
\* did not fail has an updateCount of at least 2, given that rows are created
\* by CalculateAndUpdateScore only.
SweepRecomputesUnlessStoreFails ==
    \A p \in Procs :
        SweepCoveredAllDue(p) =>
            \A a \in sweep[p].due :
                \E i \in DOMAIN sweep[p].log :
                    LET e == sweep[p].log[i]
                    IN  /\ e.addr = a
                        /\ e.cause \in {"none", "store", "unique"}
                        /\ e.cause = "none" =>
                              RecomputedBy(p, a) /\ scores[a].updateCount >= 2

\* The publish of goroutine p has returned after its submit failed.
SubmitFailed(p) ==
    loc[p].op = "publish" /\ pc[p] = "done" /\ loc[p].submitErr # "nil"

\* C24 as stated: when the submit fails, PublishScoreToBlockchain returns the
\* submit's error to its caller unmodified.
C24_SubmitErrorReturnedUnmodified ==
    \A p \in Procs : SubmitFailed(p) => loc[p].err = loc[p].submitErr

\* C24, amended: when the submit fails, PublishScoreToBlockchain returns an
\* error that wraps the submit's error: its message carries the prefix
\* "failed to publish to blockchain" and unwrapping it gives the submit's
\* error.
C24_SubmitErrorReturnedWrapped ==
    \A p \in Procs :
        SubmitFailed(p) =>
            /\ loc[p].err = "failed to publish to blockchain"
            /\ loc[p].wraps = loc[p].submitErr

\* A publish has returned the wrapped nonce error of its submit.
C24_Witness ==
    \E p \in Procs :
        /\ SubmitFailed(p)
        /\ loc[p].submitErr = "failed to get nonce"
        /\ loc[p].err = "failed to publish to blockchain"

\* Goroutines 1 and 2 hold the scores of two pairs of snapshots.
BothScored == loc[1].op = "engine" /\ loc[2].op = "engine"

\* The inputs a held score was computed from.
InputsOf(p) == loc[p].score.dataHash

\* C25: with all other inputs fixed, the composite score does not decrease
\* when one of walletAge, txCount, defiInteractions, collateralValue, the
\* repayment ratio repaid/borrowed or bankHistoryScore is raised.
C25_CompositeMonotone ==
    BothScored /\ OneInputRaised(InputsOf(1).onChain, InputsOf(1).offChain,
                                 InputsOf(2).onChain, InputsOf(2).offChain)
        => loc[1].score.score <= loc[2].score.score

\* What does hold: the composite does not decrease when one of the five plain
\* inputs is raised, or when the repaid count is raised with the borrowed
\* count fixed.
CompositeMonotoneInFields ==
    BothScored /\ OneInputRaised(InputsOf(1).onChain, InputsOf(1).offChain,
                                 InputsOf(2).onChain, InputsOf(2).offChain)
               /\ (InputsOf(1).onChain.borrowingHistory
                      = InputsOf(2).onChain.borrowingHistory
                   \/ InputsOf(1).onChain.repaymentHistory
                      <= InputsOf(2).onChain.repaymentHistory)
        => loc[1].score.score <= loc[2].score.score

\* The data a contract stores for its readers.
StoredData(to) ==
    IF to = "creditScoreOracle"
    THEN <<chain.creditScoreOracle.creditScores, chain.creditScoreOracle.dataHashes>>
    ELSE <<chain.oracle.dataStorage, chain.oracle.dataTimestamps>>

\* The update call of a contract.
UpdateCallOf(to) == IF to = "creditScoreOracle" THEN "updateCreditScore" ELSE "updateData"

\* The step is an update call to the contract.
IsUpdateTx(to) ==
    /\ chain'.txs = chain.txs + 1
    /\ chain'.last.to = to
    /\ chain'.last.fn = UpdateCallOf(to)

\* The sender of the step's transaction may update the contract at that moment.
MayUpdate(to) ==
    /\ chain'.last.sender \in chain[to].roles.ORACLE_OPERATOR_ROLE
    /\ ~chain[to].paused

\* C26: in CreditScoreOracle and in Oracle the stored data changes only through
\* an update call of an account that holds ORACLE_OPERATOR_ROLE at that moment,
\* the contract not being paused; an update call of any other account, or while
\* the contract is paused, reverts and leaves the stored data as it was.
C26_OnlyOperatorsUpdate ==
    [][\A to \in Contracts :
          /\ StoredData(to)' # StoredData(to) => IsUpdateTx(to) /\ MayUpdate(to)
          /\ IsUpdateTx(to) /\ ~MayUpdate(to) =>
                /\ chain'.last.status = "reverted"
                /\ StoredData(to)' = StoredData(to)]_vars

\* An operator whose role was revoked has had its update reverted.
C26_Witness ==
    \E to \in Contracts :
        /\ chain.last.to = to
        /\ chain.last.fn = UpdateCallOf(to)
        /\ chain.last.sender = "operator"
        /\ chain.last.status = "reverted"
        /\ "operator" \notin chain[to].roles.ORACLE_OPERATOR_ROLE
        /\ \E i \in DOMAIN chain[to].events :
              /\ chain[to].events[i].event = "RoleRevoked"
              /\ chain[to].events[i].account = "operator"

\* The CreditScoreUpdated events of a user, in the order emitted.
ScoreWrites(u) ==
    SelectSeq(chain.creditScoreOracle.events,
              LAMBDA e : e.event = "CreditScoreUpdated" /\ e.userAddress = u)

\* A score has been written for the user and its age is at most maxDataAge.
WrittenAndFresh(u) ==
    /\ ScoreWrites(u) # <<>>
    /\ chain.timestamp - ScoreWrites(u)[Len(ScoreWrites(u))].timestamp
          <= chain.creditScoreOracle.maxDataAge

\* The four reading calls of CreditScoreOracle all revert for the user.
ReadsRevert(u) ==
    /\ getCreditScore(chain.creditScoreOracle, chain.timestamp, u) = ViewReverted
    /\ getCreditData(chain.creditScoreOracle, chain.timestamp, u) = ViewReverted
    /\ getRiskLevel(chain.creditScoreOracle, chain.timestamp, u) = ViewReverted
    /\ getCreditInfo(chain.creditScoreOracle, chain.timestamp, u) = ViewReverted

\* The step is a successful updateCreditScore for the user.
ScoreWritten(u) == Len(ScoreWrites(u))' = Len(ScoreWrites(u)) + 1

\* C27: hasValidCreditScore(user) is true exactly when a score has been written
\* for the user and its age is at most maxDataAge; while it is false the four
\* reading calls revert; and it is true right after every successful update.
C27_ValidExactlyWhileFresh ==
    /\ [](\A u \in Holders :
            /\ hasValidCreditScore(chain.creditScoreOracle, chain.timestamp, u)
                  <=> WrittenAndFresh(u)
            /\ ~hasValidCreditScore(chain.creditScoreOracle, chain.timestamp, u)
                  <=> ReadsRevert(u))
    /\ [][\A u \in Holders :
            ScoreWritten(u) =>
                hasValidCreditScore(chain.creditScoreOracle, chain.timestamp, u)']_vars

\* A score went stale and a later update has made it valid again.
C27_Witness ==
    LET w == ScoreWrites("0xA")
    IN  /\ Len(w) >= 2
        /\ w[2].timestamp - w[1].timestamp > chain.creditScoreOracle.maxDataAge
        /\ hasValidCreditScore(chain.creditScoreOracle, chain.timestamp, "0xA")

\* The address the sweep of goroutine p is working on.
CurrentOf(p) == sweep[p].batch[sweep[p].idx]

\* The recomputation the sweep of goroutine p asked for has returned.
CalcReturned(p) ==
    sweep[p].stage = "calc" /\ pc[p] = "done" /\ loc[p].op = "calculate"

\* C28: within a sweep PublishScoreToBlockchain is invoked for an address only
\* after CalculateAndUpdateScore has succeeded for that address in the same
\* sweep; when the recomputation fails, the sweep moves on without publishing
\* the stored score and without creating an OracleUpdate row.
C28_PublishOnlyAfterRecompute ==
    [][\A p \in Procs :
          /\ sweep'[p].stage = "publish" /\ sweep[p].stage # "publish" =>
                /\ CalcReturned(p)
                /\ loc[p].err = "nil"
                /\ loc[p].addr = CurrentOf(p)
                /\ sweep'[p].idx = sweep[p].idx
          /\ InSweep(p) /\ loc'[p].op = "publish" /\ loc[p].op # "publish" =>
                sweep[p].stage = "publish" /\ loc'[p].addr = CurrentOf(p)
          /\ InSweep(p) /\ pc[p] = "submit" => sweep[p].stage = "publish"
          /\ CalcReturned(p) /\ loc[p].err # "nil" /\ sweep'[p] # sweep[p] =>
                /\ sweep'[p].log = Append(sweep[p].log, sweep'[p].log[Len(sweep'[p].log)])
                /\ sweep'[p].log[Len(sweep'[p].log)].addr = CurrentOf(p)
                /\ sweep'[p].log[Len(sweep'[p].log)].publish = "skipped"
                /\ sweep'[p].idx = sweep[p].idx + 1
                /\ oracleUpdates' = oracleUpdates]_vars

\* A sweep has returned that failed to recompute one address and published
\* another: the first has no OracleUpdate row.
C28_Witness ==
    \E p \in Procs :
        /\ sweep[p].stage = "done"
        /\ \E i, j \in DOMAIN sweep[p].log :
              /\ sweep[p].log[i].calc # "nil"
              /\ sweep[p].log[i].publish = "skipped"
              /\ \A k \in DOMAIN oracleUpdates :
                    oracleUpdates[k].userAddress # sweep[p].log[i].addr
              /\ sweep[p].log[j].calc = "nil"
              /\ sweep[p].log[j].publish # "skipped"

\* No computation on address a is in flight.
Settled(a) ==
    \A p \in Procs : IsComputation(p) /\ loc[p].addr = a => pc[p] = "done"

\* C29: after any set of completed CalculateAndUpdateScore calls on an address,
\* sequential or concurrent, the first entry in GetHistory order carries the
\* score, the confidence and the dataHash of the address's current CreditScore
\* row.
C29_LatestHistoryMatchesScore ==
    \A a \in Addrs :
        Settled(a) /\ scores[a] # Nil =>
            /\ GetHistory(history, a) # <<>>
            /\ GetHistory(history, a)[1].score = scores[a].score
            /\ GetHistory(history, a)[1].confidence = scores[a].confidence
            /\ GetHistory(history, a)[1].dataHash = scores[a].dataHash

\* Goroutine p holds the score a request computed for an address.
ComputedOnRequest(p) ==
    /\ ~InSweep(p)
    /\ loc[p].op = "calculate"
    /\ pc[p] = "done"
    /\ loc[p].err = "nil"

\* The sweep of goroutine q is recomputing the score of address a.
RecomputingInSweep(q, a) ==
    InSweep(q) /\ loc[q].op = "calculate" /\ loc[q].addr = a

\* C30: a scheduled recomputation of an address resolves the off-chain
\* metrics for the user identifier that was supplied when the address's score
\* was computed on request.
C30_SweepKeepsUserID ==
    \A p, q \in Procs :
        ComputedOnRequest(p) /\ RecomputingInSweep(q, loc[p].addr) =>
            loc[q].userID = loc[p].userID

====
